---- MODULE Spec2Model ----
(***************************************************************************)
(* pyraptor: the round-based RAPTOR algorithm (model/raptor.py), the point *)
(* query (query_raptor.py) and the range query (query_range_raptor.py),    *)
(* over timetables built as gtfs/timetable.py builds them.                 *)
(*                                                                         *)
(* Stops are small integers, stations are integers from 101 on, trips are  *)
(* integers (their train number).  Times are integer seconds.              *)
(***************************************************************************)
EXTENDS Integers, Sequences, FiniteSets, TLC

VARIABLES timetable, iter_order, query, raptor, result, range, call

vars == <<timetable, iter_order, query, raptor, result, range, call>>

(***************************************************************************)
(* Sentinels of pyraptor.util and of the Python code.                      *)
(***************************************************************************)
LARGE_NUMBER == 2147483647

\* None, as a trip and as a stop
NoTrip == 0
NoStop == 0

\* the marker stored as the trip of a label reached by a transfer
TRANSFER_TRIP == -1

\* the value best_stop_at_target_station returns when no stop is reached
NoFinalStop == 0

(***************************************************************************)
(* Bounds of the model.                                                    *)
(***************************************************************************)
\* the largest number of rounds a query asks for
MaxRounds == 3

\* the latest departure time a query of the small networks asks for
MaxDepSecs == 1

(***************************************************************************)
(* Generic helpers on sequences and sets.                                  *)
(***************************************************************************)
Range(s) == {s[i] : i \in DOMAIN s}

Min(S) == CHOOSE x \in S : \A y \in S : x <= y

Max(S) == CHOOSE x \in S : \A y \in S : x >= y

\* position of the element e in the sequence s (first occurrence)
IndexOf(s, e) == Min({i \in DOMAIN s : s[i] = e})

\* the elements of s from position i on (Python s[i-1:])
Suffix(s, i) == [j \in 1..(Len(s) - i + 1) |-> s[j + i - 1]]

Reverse(s) == [j \in 1..Len(s) |-> s[Len(s) - j + 1]]

\* the set S of integers as an ascending sequence
RECURSIVE SortAsc(_)
SortAsc(S) == IF S = {} THEN <<>> ELSE <<Min(S)>> \o SortAsc(S \ {Min(S)})

\* the set S of integers as a descending sequence (sorted(..., reverse=True))
RECURSIVE SortDesc(_)
SortDesc(S) == IF S = {} THEN <<>> ELSE <<Max(S)>> \o SortDesc(S \ {Max(S)})

(***************************************************************************)
(* Timetable construction (gtfs_to_pyraptor_timetable).                    *)
(*   trip     : [id, stops, arr, dep], the stop times in stop order        *)
(*   route    : [stops, trips], the trips sharing one stop sequence        *)
(*   transfer : [from_stop, to_stop, layovertime]                          *)
(***************************************************************************)
Trip(id, stops, arr, dep) == [id |-> id, stops |-> stops, arr |-> arr, dep |-> dep]

\* a trip that arrives and departs at the same instant at every stop
TripAt(id, stops, times) == Trip(id, stops, times, times)

Transfer(from_stop, to_stop, layovertime) ==
    [from_stop |-> from_stop, to_stop |-> to_stop, layovertime |-> layovertime]

\* both directions of a transfer, as the builder adds them
SymmetricTransfer(a, b, layovertime) ==
    {Transfer(a, b, layovertime), Transfer(b, a, layovertime)}

\* Routes.add: a trip joins the route of its stop sequence, or founds one
RoutesAdd(routes, trip) ==
    IF \E r \in DOMAIN routes : routes[r].stops = trip.stops
    THEN [r \in DOMAIN routes |->
            IF routes[r].stops = trip.stops
            THEN [routes[r] EXCEPT !.trips = Append(@, trip.id)]
            ELSE routes[r]]
    ELSE Append(routes, [stops |-> trip.stops, trips |-> <<trip.id>>])

RECURSIVE BuildRoutes(_, _)
BuildRoutes(routes, trips) ==
    IF trips = <<>> THEN routes
    ELSE BuildRoutes(RoutesAdd(routes, Head(trips)), Tail(trips))

\* the timetable: stops, stations (station -> its stops), trips in insertion
\* order, the routes built from them, and the transfer index
Timetable(stations, trips, transfers) ==
    [stops     |-> UNION Range(stations),
     stations  |-> stations,
     trips     |-> trips,
     routes    |-> BuildRoutes(<<>>, trips),
     transfers |-> transfers]

(***************************************************************************)
(* Timetable lookups (pyraptor.model.structures).                          *)
(***************************************************************************)
\* Trips: the trip with the given id
TripOf(id) == CHOOSE t \in Range(timetable.trips) : t.id = id

\* Trip.get_stop: the stop time of a trip at a stop
get_stop(trip, stop) ==
    LET t == TripOf(trip)
        i == IndexOf(t.stops, stop)
    IN  [trip |-> trip, stop |-> stop, dts_arr |-> t.arr[i], dts_dep |-> t.dep[i]]

\* Route.stop_index: position of a stop in the route's stop sequence
stop_index(route, stop) == IndexOf(timetable.routes[route].stops, stop)

\* Routes.get_routes_of_stop: the routes serving a stop
get_routes_of_stop(stop) ==
    SelectSeq([r \in DOMAIN timetable.routes |-> r],
              LAMBDA r : stop \in Range(timetable.routes[r].stops))

\* Route.earliest_trip_stop_time: the stop time, at the stop, of the trip of
\* the route that departs there earliest at or after dts_arr; the stable sort
\* by departure keeps insertion order among equal departures.  None is
\* NoTrip.
earliest_trip_stop_time(route, dts_arr, stop) ==
    LET trips == timetable.routes[route].trips
        ok    == {j \in DOMAIN trips : get_stop(trips[j], stop).dts_dep >= dts_arr}
        best  == CHOOSE j \in ok : \A l \in ok :
                    \/ get_stop(trips[j], stop).dts_dep < get_stop(trips[l], stop).dts_dep
                    \/ /\ get_stop(trips[j], stop).dts_dep = get_stop(trips[l], stop).dts_dep
                       /\ j <= l
    IN  IF ok = {} THEN NoTrip ELSE trips[best]

\* iteration over a Python set of stops: the order is fixed for the process
OrderSet(S) == SelectSeq(iter_order, LAMBDA p : p \in S)

\* Transfers.from_stop_idx[stop]: the set of transfers leaving a stop, in
\* iteration order
from_stop_idx(stop) ==
    LET out == {t \in timetable.transfers : t.from_stop = stop}
        tos == OrderSet({t.to_stop : t \in out})
    IN  [j \in DOMAIN tos |-> CHOOSE t \in out : t.to_stop = tos[j]]

\* Stations.get_stops / Station.stops: the stops of a station, as a list
get_stops(station) == SortAsc(timetable.stations[station])

(***************************************************************************)
(* Label (raptor.py, class Label).                                         *)
(***************************************************************************)
Label == [earliest_arrival_time |-> LARGE_NUMBER, trip |-> NoTrip, from_stop |-> NoStop]

\* Label.update; every call of the program passes an arrival time
update(label, earliest_arrival_time, trip, from_stop) ==
    [earliest_arrival_time |-> earliest_arrival_time,
     trip                  |-> trip,
     from_stop             |-> IF from_stop # NoStop THEN from_stop ELSE label.from_stop]

(***************************************************************************)
(* RaptorAlgorithm (raptor.py).  An instance is a record: the fields of    *)
(* the object (bag_star, destination_stops,                                *)
(* earliest_arrival_at_destination), the arguments and locals of run and   *)
(* of the phase it is in, and pc, the position of run:                     *)
(*   "idle"        no object yet                                           *)
(*   "constructed" __init__ done, run not called                           *)
(*   "round"       at the head of the loop over rounds                     *)
(*   "routes"      traverse_routes, at the head of the loop over routes    *)
(*   "visit"       traverse_routes, at the head of the loop over stops     *)
(*   "transfers"   add_transfer_time, at the head of the loop over stops   *)
(*   "relax"       add_transfer_time, at the head of the loop over         *)
(*                 the transfers of current_stop                           *)
(*   "returned"    run has returned bag_star                               *)
(*   "done"        the caller has taken its result                         *)
(***************************************************************************)
Idle ==
    [pc |-> "idle",
     bag_star |-> <<>>, destination_stops |-> {},
     earliest_arrival_at_destination |-> LARGE_NUMBER,
     from_stops |-> <<>>, to_station |-> 0, dep_secs |-> 0, rounds |-> 0,
     bag_round_stop |-> <<>>, marked_stops |-> <<>>, k |-> 0,
     route_marked_stops |-> <<>>, marked_trip_stops |-> <<>>,
     marked_route |-> 0, remaining_stops_in_route |-> <<>>,
     current_trip |-> NoTrip, boarding_stop |-> NoStop,
     todo_stops |-> <<>>, marked_transfer_stops |-> <<>>,
     current_stop |-> NoStop, time_sofar |-> 0, todo_transfers |-> <<>>,
     runs |-> 0]

\* __init__
RaptorAlgorithm ==
    [Idle EXCEPT !.pc = "constructed",
                 !.bag_star = <<>>,
                 !.destination_stops = {},
                 !.earliest_arrival_at_destination = LARGE_NUMBER]

\* run, up to the loop over rounds: empty bags, the origin labels, the marks
RECURSIVE InitOrigins(_, _, _)
InitOrigins(bag, from_stops, dep_secs) ==
    IF from_stops = <<>> THEN bag
    ELSE InitOrigins(
            [bag EXCEPT ![Head(from_stops)] = update(@, dep_secs, NoTrip, NoStop)],
            Tail(from_stops), dep_secs)

RunInit(r, from_stops, to_station, dep_secs, rounds) ==
    LET empty_round == [p \in timetable.stops \cup DOMAIN timetable.stations |-> Label]
        empty_star  == [p \in timetable.stops |-> Label]
    IN  [r EXCEPT
            !.pc = "round",
            !.runs = @ + 1,
            !.from_stops = from_stops,
            !.to_station = to_station,
            !.dep_secs = dep_secs,
            !.rounds = rounds,
            !.bag_round_stop =
                [k \in 0..rounds |->
                    IF k = 0 THEN InitOrigins(empty_round, from_stops, dep_secs)
                    ELSE empty_round],
            !.destination_stops = timetable.stations[to_station],
            !.bag_star = InitOrigins(empty_star, from_stops, dep_secs),
            !.marked_stops = from_stops,
            !.k = 1]

\* accumulate_routes: Q, a dict from route to its earliest marked stop, kept
\* in insertion order as a sequence of <<route, stop>>
QGet(Q, route) ==
    IF \E i \in DOMAIN Q : Q[i][1] = route
    THEN Q[CHOOSE i \in DOMAIN Q : Q[i][1] = route][2]
    ELSE NoStop

QPut(Q, route, stop) ==
    IF \E i \in DOMAIN Q : Q[i][1] = route
    THEN [i \in DOMAIN Q |-> IF Q[i][1] = route THEN <<route, stop>> ELSE Q[i]]
    ELSE Append(Q, <<route, stop>>)

\* a Q that keeps the first marked stop it saw for a route
TakesFirstSeen(route, current_stop_for_route, marked_stop) ==
    current_stop_for_route = NoStop

\* is marked_stop to be the stop of the route in Q: the route has none yet,
\* or the one it has lies after marked_stop
TakesStop(route, current_stop_for_route, marked_stop) ==
    \/ current_stop_for_route = NoStop
    \/ stop_index(route, current_stop_for_route) > stop_index(route, marked_stop)

RECURSIVE AccumulateStop(_, _, _)
AccumulateStop(Q, marked_stop, routes_serving_stop) ==
    IF routes_serving_stop = <<>> THEN Q
    ELSE LET route == Head(routes_serving_stop)
             current_stop_for_route == QGet(Q, route)
         IN  AccumulateStop(
                IF TakesStop(route, current_stop_for_route, marked_stop)
                THEN QPut(Q, route, marked_stop)
                ELSE Q,
                marked_stop, Tail(routes_serving_stop))

RECURSIVE AccumulateFrom(_, _)
AccumulateFrom(Q, marked_stops) ==
    IF marked_stops = <<>> THEN Q
    ELSE AccumulateFrom(
            AccumulateStop(Q, Head(marked_stops), get_routes_of_stop(Head(marked_stops))),
            Tail(marked_stops))

accumulate_routes(marked_stops) == AccumulateFrom(<<>>, marked_stops)

\* a loop that does not look whether a stop is marked
SomeMarkedAlways(r) == TRUE

\* len(marked_stops) > 0
SomeMarked(r) == Len(r.marked_stops) > 0

\* a loop over rounds that stops after the first round
RoundRunsFirstOnly(r) == r.k <= 1 /\ Len(r.marked_stops) > 0

\* the loop over rounds goes on: k <= rounds and some stop is marked
RoundRuns(r) == r.k <= r.rounds /\ SomeMarked(r)

\* head of round k: accumulate the routes, enter traverse_routes
RoundStart(r) ==
    [r EXCEPT !.pc = "routes",
              !.route_marked_stops = accumulate_routes(r.marked_stops),
              !.marked_trip_stops = <<>>]

\* the loop over rounds ends (break, or k past rounds): run returns bag_star
RunReturn(r) == [r EXCEPT !.pc = "returned"]

\* traverse_routes, head of the loop over (route, stop): the next route
NextRoute(r) ==
    LET marked_route == Head(r.route_marked_stops)[1]
        marked_stop  == Head(r.route_marked_stops)[2]
    IN  [r EXCEPT
            !.pc = "visit",
            !.route_marked_stops = Tail(@),
            !.marked_route = marked_route,
            !.current_trip = NoTrip,
            !.remaining_stops_in_route =
                Suffix(timetable.routes[marked_route].stops,
                       stop_index(marked_route, marked_stop)),
            !.boarding_stop = NoStop]

\* a test against the label of the round instead of the best label
ImprovesOnRound(r, current_stop) ==
    /\ r.current_trip # NoTrip
    /\ get_stop(r.current_trip, current_stop).dts_arr
          < r.bag_round_stop[r.k][current_stop].earliest_arrival_time
    /\ get_stop(r.current_trip, current_stop).dts_arr
          < r.earliest_arrival_at_destination

\* does the held trip improve the stop it is visiting
Improves(r, current_stop) ==
    /\ r.current_trip # NoTrip
    /\ get_stop(r.current_trip, current_stop).dts_arr
          < r.bag_star[current_stop].earliest_arrival_time
    /\ get_stop(r.current_trip, current_stop).dts_arr
          < r.earliest_arrival_at_destination

\* a scan that boards from the arrivals of the round it is in
PreviousArrivalStar(r, current_stop) ==
    r.bag_star[current_stop].earliest_arrival_time

\* the arrival at the stop in the previous round
PreviousArrival(r, current_stop) ==
    r.bag_round_stop[r.k - 1][current_stop].earliest_arrival_time

\* a scan that boards once and never changes to an earlier trip
MayBoardFirstOnly(r, current_stop) == r.current_trip = NoTrip

\* may another trip be boarded at the stop
MayBoard(r, current_stop) ==
    \/ r.current_trip = NoTrip
    \/ PreviousArrival(r, current_stop)
          <= get_stop(r.current_trip, current_stop).dts_dep

\* traverse_routes, one iteration of the loop over the stops of the route
Visit(r) ==
    LET current_stop == Head(r.remaining_stops_in_route)
        new_arrival_time == get_stop(r.current_trip, current_stop).dts_arr
        improved == Improves(r, current_stop)
        previous_earliest_arrival_time == PreviousArrival(r, current_stop)
        earliest_trip ==
            earliest_trip_stop_time(r.marked_route, previous_earliest_arrival_time,
                                    current_stop)
        switch == /\ MayBoard(r, current_stop)
                  /\ earliest_trip # NoTrip
                  /\ earliest_trip # r.current_trip
    IN  [r EXCEPT
            !.bag_round_stop[r.k][current_stop] =
                IF improved
                THEN update(@, new_arrival_time, r.current_trip, r.boarding_stop)
                ELSE @,
            !.bag_star[current_stop] =
                IF improved
                THEN update(@, new_arrival_time, r.current_trip, r.boarding_stop)
                ELSE @,
            !.earliest_arrival_at_destination =
                IF improved /\ current_stop \in r.destination_stops
                THEN new_arrival_time ELSE @,
            !.marked_trip_stops = IF improved THEN Append(@, current_stop) ELSE @,
            !.current_trip = IF switch THEN earliest_trip ELSE @,
            !.boarding_stop = IF switch THEN current_stop ELSE @,
            !.remaining_stops_in_route = Tail(@),
            !.pc = IF Tail(r.remaining_stops_in_route) = <<>> THEN "routes" ELSE "visit"]

\* traverse_routes returns; add_transfer_time starts on the stops it marked
TraverseReturn(r) ==
    [r EXCEPT !.pc = "transfers",
              !.todo_stops = r.marked_trip_stops,
              !.marked_transfer_stops = <<>>]

\* a walk that starts at the departure time of the query
TimeSofarDeparture(r, current_stop) == r.dep_secs

\* time_sofar: the arrival of this round at the stop the transfers leave
TimeSofar(r, current_stop) ==
    r.bag_round_stop[r.k][current_stop].earliest_arrival_time

\* add_transfer_time, head of the loop over the marked stops
NextTransferStop(r) ==
    LET current_stop == Head(r.todo_stops)
        transfers == from_stop_idx(current_stop)
    IN  [r EXCEPT
            !.todo_stops = Tail(@),
            !.current_stop = current_stop,
            !.time_sofar = TimeSofar(r, current_stop),
            !.todo_transfers = transfers,
            !.pc = IF transfers = <<>> THEN "transfers" ELSE "relax"]

\* a domination test that lets an equal arrival through
TransferNotWorse(new_earliest_arrival, previous_earliest_arrival) ==
    new_earliest_arrival <= previous_earliest_arrival

\* the domination criterion of add_transfer_time
TransferImproves(new_earliest_arrival, previous_earliest_arrival) ==
    new_earliest_arrival < previous_earliest_arrival

\* add_transfer_time, one transfer of current_stop
Relax(r) ==
    LET transfer == Head(r.todo_transfers)
        arrive_stop == transfer.to_stop
        new_earliest_arrival == r.time_sofar + transfer.layovertime
        previous_earliest_arrival == r.bag_star[arrive_stop].earliest_arrival_time
        better == TransferImproves(new_earliest_arrival, previous_earliest_arrival)
    IN  [r EXCEPT
            !.bag_round_stop[r.k][arrive_stop] =
                IF better
                THEN update(@, new_earliest_arrival, TRANSFER_TRIP, r.current_stop)
                ELSE @,
            !.bag_star[arrive_stop] =
                IF better
                THEN update(@, new_earliest_arrival, TRANSFER_TRIP, r.current_stop)
                ELSE @,
            !.marked_transfer_stops = IF better THEN Append(@, arrive_stop) ELSE @,
            !.todo_transfers = Tail(@),
            !.pc = IF Tail(r.todo_transfers) = <<>> THEN "transfers" ELSE "relax"]

\* add_transfer_time returns; the stops marked by either phase are the marked
\* stops of the next round
RoundEnd(r) ==
    [r EXCEPT !.pc = "round",
              !.marked_stops =
                  OrderSet(Range(r.marked_trip_stops) \cup Range(r.marked_transfer_stops)),
              !.k = @ + 1]

(***************************************************************************)
(* best_stop_at_target_station, reconstruct_journey, is_dominated.         *)
(***************************************************************************)
RECURSIVE BestStopFrom(_, _, _, _)
BestStopFrom(to_stops, bag, final_stop, earliest_arrival_time) ==
    IF to_stops = <<>> THEN final_stop
    ELSE LET stop == Head(to_stops)
         IN  IF bag[stop].earliest_arrival_time < earliest_arrival_time
             THEN BestStopFrom(Tail(to_stops), bag, stop, bag[stop].earliest_arrival_time)
             ELSE BestStopFrom(Tail(to_stops), bag, final_stop, earliest_arrival_time)

\* a selection that compares with <= and so takes a stop that was not reached
BestStopNotLater(to_stops, bag) ==
    IF to_stops = <<>> THEN NoFinalStop
    ELSE CHOOSE stop \in Range(to_stops) :
            \A other \in Range(to_stops) :
                bag[stop].earliest_arrival_time <= bag[other].earliest_arrival_time

best_stop_at_target_station(to_stops, bag) ==
    BestStopFrom(to_stops, bag, NoFinalStop, LARGE_NUMBER)

\* a leg of a journey
Leg(from_stop, to_stop, trip, earliest_arrival_time) ==
    [from_stop |-> from_stop, to_stop |-> to_stop, trip |-> trip,
     earliest_arrival_time |-> earliest_arrival_time]

\* reconstruct_journey: follow from_stop back from the destination.  The loop
\* of the program does not end on a cyclic chain; fuel bounds the walk, and a
\* walk that runs out of fuel yields a journey of one leg without stops.
RECURSIVE ReconstructFrom(_, _, _, _)
ReconstructFrom(to_stop, bag, journey, fuel) ==
    IF bag[to_stop].from_stop = NoStop THEN journey
    ELSE IF fuel = 0 THEN <<Leg(NoStop, NoStop, NoTrip, LARGE_NUMBER)>>
    ELSE LET from_stop == bag[to_stop].from_stop
             leg == Leg(from_stop, to_stop, bag[to_stop].trip,
                        bag[to_stop].earliest_arrival_time)
         IN  ReconstructFrom(from_stop, bag, <<leg>> \o journey, fuel - 1)

\* a reconstruction that makes the leg into the destination unasked
ReconstructAlwaysLeg(destination, bag) ==
    <<Leg(bag[destination].from_stop, destination, bag[destination].trip,
          bag[destination].earliest_arrival_time)>>

reconstruct_journey(destination, bag) ==
    ReconstructFrom(destination, bag, <<>>, Cardinality(DOMAIN bag))

\* Journey.dep: the departure of the first leg's trip from its boarding stop
dep(journey) == get_stop(journey[1].trip, journey[1].from_stop).dts_dep

\* Journey.arr: the arrival time of the last leg
arr(journey) == journey[Len(journey)].earliest_arrival_time

\* a test that asks for no strict improvement
IsDominatedNotWorse(original_journey, new_journey) ==
    IF original_journey = <<>> THEN FALSE
    ELSE IF original_journey = new_journey THEN TRUE
    ELSE /\ dep(original_journey) >= dep(new_journey)
         /\ arr(original_journey) <= arr(new_journey)

is_dominated(original_journey, new_journey) ==
    IF original_journey = <<>> THEN FALSE
    ELSE IF original_journey = new_journey THEN TRUE
    ELSE \/ dep(original_journey) >= dep(new_journey)
            /\ arr(original_journey) < arr(new_journey)
         \/ dep(original_journey) > dep(new_journey)
            /\ arr(original_journey) <= arr(new_journey)

(***************************************************************************)
(* The timetables and queries the model starts from.                       *)
(***************************************************************************)
\* the fixture of the tests (conftest.get_default_data): stations A, C, F, X
\* with one stop each; trips 101, 202, 303 and their copies one hour later
FixtureTrips(trip_offset, time_offset) ==
    << TripAt(trip_offset + 101, <<1, 2>>, <<time_offset + 100, time_offset + 600>>),
       TripAt(trip_offset + 202, <<2, 3>>, <<time_offset + 660, time_offset + 1500>>),
       TripAt(trip_offset + 303, <<2, 4, 3>>,
              <<time_offset + 900, time_offset + 1200, time_offset + 1800>>) >>

FixtureStations == (101 :> {1}) @@ (102 :> {2}) @@ (103 :> {3}) @@ (104 :> {4})

Fixture == Timetable(FixtureStations, FixtureTrips(0, 0) \o FixtureTrips(10, 3600), {})

\* the fixture without trip 303 and its copy
FixtureWithout303 ==
    Timetable(FixtureStations,
              SelectSeq(FixtureTrips(0, 0) \o FixtureTrips(10, 3600),
                        LAMBDA t : t.id \notin {303, 313}),
              {})

\* small networks: an origin stop 1, a station of two platforms 2 and 3, a
\* destination stop 4, a stop 5 beside the line and a stop 6 that no route
\* serves and no transfer leaves; a network takes some trips of the pool
PoolStations ==
    (101 :> {1}) @@ (102 :> {2, 3}) @@ (103 :> {4}) @@ (104 :> {5}) @@ (105 :> {6})

TripPool ==
    << TripAt(1, <<1, 2>>, <<1, 3>>),
       TripAt(2, <<1, 2>>, <<0, 6>>),
       TripAt(3, <<3, 4>>, <<4, 6>>),
       Trip(4, <<2, 3, 4>>, <<0, 2, 4>>, <<0, 3, 4>>),
       TripAt(5, <<2, 3, 4>>, <<5, 6, 7>>),
       TripAt(6, <<1, 5, 4>>, <<2, 4, 10>>),
       TripAt(7, <<5, 4>>, <<5, 7>>),
       TripAt(8, <<4, 5>>, <<9, 11>>),
       TripAt(9, <<1, 2, 4>>, <<0, 4, 6>>) >>

TransferPool ==
    { {},
      SymmetricTransfer(2, 3, 1),
      SymmetricTransfer(2, 3, 0) \cup SymmetricTransfer(3, 5, 1) }

\* the networks: MaxTrips trips of the pool, in pool order
MaxTrips == 3

PoolTimetables ==
    { Timetable(PoolStations, SelectSeq(TripPool, LAMBDA t : t.id \in ids), tr) :
        ids \in {S \in SUBSET (1..Len(TripPool)) :
                    Cardinality(S) = MaxTrips},
        tr \in TransferPool }

Query(origin_station, destination_station, dep_secs, rounds) ==
    [origin_station |-> origin_station, destination_station |-> destination_station,
     dep_secs |-> dep_secs, rounds |-> rounds]

\* the point queries asked of a timetable
FixtureQueries ==
    { Query(o, d, t, n) : o \in {101, 102}, d \in {103, 104}, t \in {100, 700, 3700},
                          n \in 1..MaxRounds }

PoolQueries ==
    { Query(o, d, t, n) : o \in {101, 102}, d \in {102, 103, 104}, t \in 0..MaxDepSecs,
                          n \in 1..MaxRounds }

\* the fixture with a station Z more, which has no stop
FixtureWithEmptyStation ==
    Timetable(FixtureStations @@ (105 :> {}),
              FixtureTrips(0, 0) \o FixtureTrips(10, 3600), {})

\* queries from or to the station without stops
EmptyStationQueries ==
    { Query(o, d, 100, n) : o \in {101, 105}, d \in {103, 105}, n \in 1..MaxRounds }
      \ { Query(101, 103, 100, n) : n \in 1..MaxRounds }

\* the fixture with a station more whose one stop no trip serves
FixtureWithLoneStop ==
    Timetable(FixtureStations @@ (105 :> {5}),
              FixtureTrips(0, 0) \o FixtureTrips(10, 3600), {})

\* queries from or to that station
LoneStopQueries ==
    { Query(105, 103, 100, n) : n \in 1..MaxRounds }
    \cup { Query(101, 105, 100, n) : n \in 1..MaxRounds }

\* a network with a slow direct trip 1 -> 2, a quicker way round over stop 5
\* (1 -> 5, then 5 -> 2) and one trip on from 2 to the destination stop 4
DetourTrips ==
    << TripAt(11, <<1, 2>>, <<2, 10>>),
       TripAt(12, <<1, 5>>, <<2, 3>>),
       TripAt(13, <<5, 2>>, <<4, 6>>),
       TripAt(14, <<2, 4>>, <<12, 20>>) >>

Detour == Timetable(PoolStations, DetourTrips, {})

\* a network in which two trips reach the two platforms 2 and 3 at the same
\* second, with a transfer of no cost between the platforms
TieTrips ==
    << TripAt(31, <<1, 2>>, <<2, 5>>),
       TripAt(32, <<1, 3>>, <<2, 5>>),
       TripAt(33, <<3, 4>>, <<6, 8>>) >>

Tie == Timetable(PoolStations, TieTrips, SymmetricTransfer(2, 3, 0))

\* a network in which one round reaches both platforms 2 and 3 by trip,
\* platform 3 late, with a walk from 2 to 3 and a walk on from 3 to stop 5
WalkOnTrips ==
    << TripAt(41, <<1, 2>>, <<2, 3>>),
       TripAt(42, <<1, 3>>, <<2, 10>>) >>

WalkOn ==
    Timetable(PoolStations, WalkOnTrips,
              SymmetricTransfer(2, 3, 1) \cup SymmetricTransfer(3, 5, 1))

Scenarios ==
    { <<tt, q>> : tt \in {Fixture, FixtureWithout303}, q \in FixtureQueries }
    \cup { <<tt, q>> : tt \in {Detour, Tie, WalkOn}, q \in PoolQueries }
    \cup { <<FixtureWithLoneStop, q>> : q \in LoneStopQueries }
    \cup { <<FixtureWithEmptyStation, q>> : q \in EmptyStationQueries }
    \cup { <<tt, q>> : tt \in PoolTimetables, q \in PoolQueries }

\* the orders in which a set of stops is iterated
IterOrders(tt) == { SortAsc(tt.stops), SortDesc(tt.stops) }

NoResult == [returned |-> FALSE, dest_stop |-> NoFinalStop, none |-> TRUE, journey |-> <<>>]

RangeOff ==
    [pc |-> "off", origin_station |-> 0, destination_station |-> 0,
     dep_secs_min |-> 0, dep_secs_max |-> 0, rounds |-> 0,
     from_stops |-> <<>>, to_stops |-> <<>>,
     potential_dep_secs |-> <<>>, journeys_to_destinations |-> <<>>,
     processed |-> <<>>]

\* no call of a function on its own
NoCall == [pc |-> "off"]

\* instances of RaptorAlgorithm the model follows
Inst == {1, 2}

(***************************************************************************)
(* The point query run_raptor, one instance.                               *)
(***************************************************************************)
Init ==
    /\ \E sc \in Scenarios :
          /\ timetable = sc[1]
          /\ query = [i \in Inst |-> sc[2]]
          /\ iter_order \in IterOrders(sc[1])
    /\ raptor = [i \in Inst |-> Idle]
    /\ result = [i \in Inst |-> NoResult]
    /\ call = NoCall
    /\ range = RangeOff

\* the arguments with which instance i's run is called
RunArgs(i) ==
    IF range.pc = "off"
    THEN [from_stops |-> get_stops(query[i].origin_station),
          to_station |-> query[i].destination_station,
          dep_secs   |-> query[i].dep_secs,
          rounds     |-> query[i].rounds]
    ELSE [from_stops |-> range.from_stops,
          to_station |-> range.destination_station,
          dep_secs   |-> Head(range.potential_dep_secs),
          rounds     |-> range.rounds]

\* run_raptor creates the RaptorAlgorithm
Construct(i) ==
    /\ range.pc = "off"
    /\ raptor[i].pc = "idle"
    /\ raptor' = [raptor EXCEPT ![i] = RaptorAlgorithm]
    /\ UNCHANGED <<call, timetable, iter_order, query, result, range>>

\* an object whose earliest_arrival_at_destination is one attribute of the
\* class, shared by the instances
SelfSharingBound(rs, i) ==
    [rs[i] EXCEPT !.earliest_arrival_at_destination =
        Min({rs[j].earliest_arrival_at_destination : j \in DOMAIN rs})]

\* self in a method of instance i: the attributes __init__ and run set on it
Self(rs, i) == rs[i]

\* a step of run on instance i
RunStep(i, pc, next) ==
    /\ raptor[i].pc = pc
    /\ raptor' = [raptor EXCEPT ![i] = next]
    /\ UNCHANGED <<call, timetable, iter_order, query, result, range>>

DoRunInit(i) ==
    RunStep(i, "constructed",
            RunInit(Self(raptor, i), RunArgs(i).from_stops, RunArgs(i).to_station,
                    RunArgs(i).dep_secs, RunArgs(i).rounds))

DoRoundStart(i) ==
    RoundRuns(Self(raptor, i)) /\ RunStep(i, "round", RoundStart(Self(raptor, i)))

DoRunReturn(i) ==
    ~RoundRuns(Self(raptor, i)) /\ RunStep(i, "round", RunReturn(Self(raptor, i)))

DoNextRoute(i) ==
    /\ raptor[i].route_marked_stops # <<>>
    /\ RunStep(i, "routes", NextRoute(Self(raptor, i)))

DoTraverseReturn(i) ==
    /\ raptor[i].route_marked_stops = <<>>
    /\ RunStep(i, "routes", TraverseReturn(Self(raptor, i)))

DoVisit(i) == RunStep(i, "visit", Visit(Self(raptor, i)))

DoNextTransferStop(i) ==
    /\ raptor[i].todo_stops # <<>>
    /\ RunStep(i, "transfers", NextTransferStop(Self(raptor, i)))

DoRelax(i) == RunStep(i, "relax", Relax(Self(raptor, i)))

DoRoundEnd(i) ==
    raptor[i].todo_stops = <<>> /\ RunStep(i, "transfers", RoundEnd(Self(raptor, i)))

\* run_raptor after run: the best destination stop and its journey
PointResult(i) ==
    /\ range.pc = "off"
    /\ raptor[i].pc = "returned"
    /\ LET to_stops  == get_stops(query[i].destination_station)
           dest_stop == best_stop_at_target_station(to_stops, raptor[i].bag_star)
       IN  result' = [result EXCEPT ![i] =
                [returned  |-> TRUE,
                 dest_stop |-> dest_stop,
                 none      |-> dest_stop = NoFinalStop,
                 journey   |-> IF dest_stop # NoFinalStop
                               THEN reconstruct_journey(dest_stop, raptor[i].bag_star)
                               ELSE <<>>]]
    /\ raptor' = [raptor EXCEPT ![i].pc = "done"]
    /\ UNCHANGED <<call, timetable, iter_order, query, range>>

Run(i) ==
    \/ DoRunInit(i)
    \/ DoRoundStart(i)
    \/ DoRunReturn(i)
    \/ DoNextRoute(i)
    \/ DoVisit(i)
    \/ DoTraverseReturn(i)
    \/ DoNextTransferStop(i)
    \/ DoRelax(i)
    \/ DoRoundEnd(i)

Next ==
    \/ Construct(1)
    \/ Run(1)
    \/ PointResult(1)

Spec == Init /\ [][Next]_vars

(***************************************************************************)
(* Two point queries, each with its own RaptorAlgorithm, on one timetable; *)
(* their steps interleave in any order.                                    *)
(***************************************************************************)
ConcTimetables ==
    { Fixture,
      Timetable(PoolStations, SelectSeq(TripPool, LAMBDA t : t.id \in {1, 3, 5}),
                SymmetricTransfer(2, 3, 1)) }

ConcQueries(tt) ==
    IF tt = Fixture
    THEN { Query(101, 103, 100, MaxRounds - 1), Query(102, 103, 700, 1),
           Query(101, 102, 100, 1) }
    ELSE { Query(101, 103, 0, MaxRounds - 1), Query(102, 103, MaxDepSecs, 1),
           Query(101, 102, 0, 1) }

InitConc ==
    /\ timetable \in ConcTimetables
    /\ query \in [Inst -> ConcQueries(timetable)]
    /\ iter_order \in IterOrders(timetable)
    /\ raptor = [i \in Inst |-> Idle]
    /\ result = [i \in Inst |-> NoResult]
    /\ call = NoCall
    /\ range = RangeOff

NextConc == \E i \in Inst : Construct(i) \/ Run(i) \/ PointResult(i)

SpecConc == InitConc /\ [][NextConc]_vars

(***************************************************************************)
(* The range query run_range_raptor (query_range_raptor.py).  range.pc:    *)
(*   "off"      no range query                                             *)
(*   "start"    called                                                     *)
(*   "loop"     at the head of the loop over potential_dep_secs            *)
(*   "run"      in raptor.run of the iteration                             *)
(*   "returned" the list of journeys is returned                           *)
(* processed records, for every iteration, the departure time it ran and   *)
(* the number of runs its RaptorAlgorithm had made when it returned.       *)
(***************************************************************************)
\* TripStopTimes.get_trip_stop_times_in_range: the stop times at the stops
\* whose departure lies in the window
get_trip_stop_times_in_range(stops, dep_secs_min, dep_secs_max) ==
    UNION { { get_stop(t.id, t.stops[pos]) :
                pos \in { j \in DOMAIN t.stops :
                            /\ t.stops[j] \in Range(stops)
                            /\ t.dep[j] >= dep_secs_min
                            /\ t.dep[j] <= dep_secs_max } } :
            t \in Range(timetable.trips) }

\* an iteration that runs on the RaptorAlgorithm of the iteration before
RangeInstanceReused(previous) ==
    IF previous.pc = "idle" THEN RaptorAlgorithm
    ELSE [previous EXCEPT !.pc = "constructed"]

\* raptor = RaptorAlgorithm(timetable), in the loop
RangeInstance(previous) == RaptorAlgorithm

\* candidate times taken from the earliest to the latest
PotentialDepSecsAscending(potential_trip_stop_times) ==
    SortAsc({tst.dts_dep : tst \in potential_trip_stop_times})

\* sorted(list(set(dts_dep ...)), reverse=True)
PotentialDepSecs(potential_trip_stop_times) ==
    SortDesc({tst.dts_dep : tst \in potential_trip_stop_times})

RangeStart ==
    /\ range.pc = "start"
    /\ LET from_stops == get_stops(range.origin_station)
           to_stops   == get_stops(range.destination_station)
           potential_trip_stop_times ==
               get_trip_stop_times_in_range(from_stops, range.dep_secs_min,
                                            range.dep_secs_max)
       IN  range' = [range EXCEPT
                !.pc = "loop",
                !.from_stops = from_stops,
                !.to_stops = to_stops,
                !.potential_dep_secs =
                    PotentialDepSecs(potential_trip_stop_times),
                !.journeys_to_destinations = <<>>]
    /\ UNCHANGED <<call, timetable, iter_order, query, raptor, result>>

\* head of the loop: a RaptorAlgorithm for the next departure time
RangeIter ==
    /\ range.pc = "loop"
    /\ range.potential_dep_secs # <<>>
    /\ range' = [range EXCEPT !.pc = "run"]
    /\ raptor' = [raptor EXCEPT ![1] = RangeInstance(raptor[1])]
    /\ UNCHANGED <<call, timetable, iter_order, query, result>>

\* run has returned: the best stop, its journey, the domination filter
RangeCollect ==
    /\ range.pc = "run"
    /\ raptor[1].pc = "returned"
    /\ LET best_labels == raptor[1].bag_star
           dest_stop   == best_stop_at_target_station(range.to_stops, best_labels)
           journey     == reconstruct_journey(dest_stop, best_labels)
           journeys    == range.journeys_to_destinations
           accept      == /\ dest_stop # NoFinalStop
                          /\ \/ Len(journeys) = 0
                             \/ ~is_dominated(journeys[Len(journeys)], journey)
       IN  range' = [range EXCEPT
                !.pc = "loop",
                !.potential_dep_secs = Tail(@),
                !.journeys_to_destinations =
                    IF accept THEN Append(@, journey) ELSE @,
                !.processed = Append(@, [dep_secs |-> raptor[1].dep_secs,
                                         runs     |-> raptor[1].runs])]
    /\ raptor' = [raptor EXCEPT ![1].pc = "done"]
    /\ UNCHANGED <<call, timetable, iter_order, query, result>>

RangeReturn ==
    /\ range.pc = "loop"
    /\ range.potential_dep_secs = <<>>
    /\ range' = [range EXCEPT !.pc = "returned"]
    /\ UNCHANGED <<call, timetable, iter_order, query, raptor, result>>

\* a network of five stops, one per station: origin 1, destination 5, and
\* the stops 2, 3, 4 between them
RangeStations ==
    (201 :> {1}) @@ (202 :> {2}) @@ (203 :> {3}) @@ (204 :> {4}) @@ (205 :> {5})

RangeTrips ==
    << TripAt(21, <<1, 3>>, <<5, 9>>),
       TripAt(22, <<3, 5>>, <<11, 20>>),
       TripAt(23, <<1, 4>>, <<8, 10>>),
       TripAt(24, <<2, 4, 5>>, <<6, 12, 20>>),
       TripAt(25, <<1, 2>>, <<3, 7>>),
       TripAt(26, <<1, 3>>, <<3, 6>>) >>

\* the networks: all these trips but one, without transfers or with a walk
\* between the stops 2 and 3
RangeTimetables ==
    { Timetable(RangeStations, SelectSeq(RangeTrips, LAMBDA t : t.id # without), tr) :
        without \in 21..26, tr \in { {}, SymmetricTransfer(2, 3, 1) } }

RangeQuery(origin_station, destination_station, dep_secs_min, dep_secs_max, rounds) ==
    [RangeOff EXCEPT !.pc = "start",
                     !.origin_station = origin_station,
                     !.destination_station = destination_station,
                     !.dep_secs_min = dep_secs_min,
                     !.dep_secs_max = dep_secs_max,
                     !.rounds = rounds]

RangeScenarios ==
    { <<tt, RangeQuery(101, 103, lo, hi, n)>> :
        tt \in {Fixture, FixtureWithout303}, lo \in {50, 700}, hi \in {150, 3800},
        n \in 1..MaxRounds }
    \cup { <<tt, RangeQuery(201, 205, lo, hi, n)>> :
             tt \in RangeTimetables, lo \in {3, 5}, hi \in {5, 8}, n \in 1..MaxRounds }

InitRange ==
    /\ \E sc \in RangeScenarios :
          /\ timetable = sc[1]
          /\ range = sc[2]
          /\ query = [i \in Inst |->
                        Query(sc[2].origin_station, sc[2].destination_station,
                              sc[2].dep_secs_min, sc[2].rounds)]
          /\ iter_order \in IterOrders(sc[1])
    /\ raptor = [i \in Inst |-> Idle]
    /\ result = [i \in Inst |-> NoResult]
    /\ call = NoCall

NextRange ==
    \/ RangeStart
    \/ RangeIter
    \/ Run(1)
    \/ RangeCollect
    \/ RangeReturn

SpecRange == InitRange /\ [][NextRange]_vars

(***************************************************************************)
(* is_dominated called on two journeys of one network.                     *)
(***************************************************************************)
RangeNetwork == Timetable(RangeStations, RangeTrips, {})

\* the journey without legs (it has no departure: only the original journey
\* of a call may be it) and journeys from stop 1 to stop 5: a first trip from stop 1 to the stop where
\* it ends, a second trip from there, and the time it reaches stop 5
JourneyPool ==
    { <<>> } \cup
    { << Leg(1, TripOf(first).stops[Len(TripOf(first).stops)], first,
             TripOf(first).arr[Len(TripOf(first).stops)]),
         Leg(TripOf(first).stops[Len(TripOf(first).stops)], 5, second, arrival) >> :
        first \in {21, 23, 25, 26}, second \in {22, 24}, arrival \in {19, 20} }

InitDominated ==
    /\ timetable = RangeNetwork
    /\ iter_order \in IterOrders(RangeNetwork)
    /\ query = [i \in Inst |-> Query(201, 205, 0, 1)]
    /\ raptor = [i \in Inst |-> Idle]
    /\ result = [i \in Inst |-> NoResult]
    /\ range = RangeOff
    /\ \E original_journey \in JourneyPool, new_journey \in JourneyPool \ {<<>>} :
          call = [pc |-> "called", original_journey |-> original_journey,
                  new_journey |-> new_journey, ret |-> FALSE]

IsDominatedCall ==
    /\ call.pc = "called"
    /\ call' = [call EXCEPT !.pc = "returned",
                            !.ret = is_dominated(call.original_journey,
                                                 call.new_journey)]
    /\ UNCHANGED <<timetable, iter_order, query, raptor, result, range>>

NextDominated == IsDominatedCall

SpecDominated == InitDominated /\ [][NextDominated]_vars

(***************************************************************************)
(* accumulate_routes called on its own, with the marked stops in any       *)
(* order.                                                                  *)
(***************************************************************************)
MaxMarked == 3

\* all trips of the pool together: seven routes, three of them of three stops
WholePool == Timetable(PoolStations, TripPool, {})

AccumulateTimetables == {Fixture, Detour, WholePool}

\* the lists of at most MaxMarked different stops
MarkedLists(stops) ==
    { l \in UNION { [1..n -> stops] : n \in 0..MaxMarked } :
        \A a, b \in DOMAIN l : a # b => l[a] # l[b] }

InitAccumulate ==
    /\ timetable \in AccumulateTimetables
    /\ iter_order = SortAsc(timetable.stops)
    /\ query = [i \in Inst |-> Query(101, 103, 0, 1)]
    /\ raptor = [i \in Inst |-> Idle]
    /\ result = [i \in Inst |-> NoResult]
    /\ range = RangeOff
    /\ \E marked_stops \in MarkedLists(timetable.stops) :
          call = [pc |-> "called", marked_stops |-> marked_stops, ret |-> <<>>]

AccumulateCall ==
    /\ call.pc = "called"
    /\ call' = [call EXCEPT !.pc = "returned",
                            !.ret = accumulate_routes(call.marked_stops)]
    /\ UNCHANGED <<timetable, iter_order, query, raptor, result, range>>

NextAccumulate == AccumulateCall

SpecAccumulate == InitAccumulate /\ [][NextAccumulate]_vars

(***************************************************************************)
(* Either entry point: a point query or a range query.                     *)
(***************************************************************************)
InitQueries == Init \/ InitRange

NextQueries == Next \/ NextRange

SpecQueries == InitQueries /\ [][NextQueries]_vars

(***************************************************************************)
(* run called twice on one RaptorAlgorithm with the same arguments.        *)
(***************************************************************************)
RerunScenarios ==
    { <<tt, q>> : tt \in {Fixture, FixtureWithout303}, q \in FixtureQueries }
    \cup { <<tt, q>> : tt \in ConcTimetables \cup {Detour}, q \in PoolQueries }

InitRerun ==
    /\ \E sc \in RerunScenarios :
          /\ timetable = sc[1]
          /\ query = [i \in Inst |-> sc[2]]
          /\ iter_order \in IterOrders(sc[1])
    /\ raptor = [i \in Inst |-> Idle]
    /\ result = [i \in Inst |-> NoResult]
    /\ call = NoCall
    /\ range = RangeOff

\* the first run has returned its table; the caller keeps it and calls run
\* again on the same object
Rerun(i) ==
    /\ call.pc = "off"
    /\ raptor[i].pc = "returned"
    /\ call' = [pc |-> "rerun", first |-> raptor[i].bag_star]
    /\ raptor' = [raptor EXCEPT ![i].pc = "constructed"]
    /\ UNCHANGED <<timetable, iter_order, query, result, range>>

NextRerun ==
    \/ Construct(1)
    \/ Run(1)
    \/ Rerun(1)

SpecRerun == InitRerun /\ [][NextRerun]_vars

(***************************************************************************)
(* The point query as the interpreter runs it: a statement that can run,   *)
(* runs.                                                                   *)
(***************************************************************************)
FairScenarios ==
    RerunScenarios
    \cup { <<FixtureWithEmptyStation, q>> : q \in EmptyStationQueries }

InitFair ==
    /\ \E sc \in FairScenarios :
          /\ timetable = sc[1]
          /\ query = [i \in Inst |-> sc[2]]
          /\ iter_order \in IterOrders(sc[1])
    /\ raptor = [i \in Inst |-> Idle]
    /\ result = [i \in Inst |-> NoResult]
    /\ call = NoCall
    /\ range = RangeOff

SpecFair == InitFair /\ [][Next]_vars /\ WF_vars(Next)

(***************************************************************************)
(* The journeys of a timetable, defined from the timetable alone: what a   *)
(* query is to find.  Stops are 1..NumStops; a table is a sequence indexed *)
(* by stop.                                                                *)
(***************************************************************************)
NumStops == Cardinality(timetable.stops)

MinOr(S) == IF S = {} THEN LARGE_NUMBER ELSE Min(S)

\* a function on 1..NumStops as a sequence
AsTable(f) == <<>> \o f

\* cost of the cheapest single transfer from q to p
DirectCost(q, p) ==
    IF q = p THEN 0
    ELSE MinOr({t.layovertime : t \in {u \in timetable.transfers :
                                          u.from_stop = q /\ u.to_stop = p}})

\* cost of the cheapest chain of transfers, of at most m transfers
RECURSIVE WalkCost(_)
WalkCost(m) ==
    IF m <= 1
    THEN AsTable([a \in 1..NumStops |->
             AsTable([b \in 1..NumStops |-> DirectCost(a, b)])])
    ELSE LET fewer == WalkCost(m - 1)
         IN  AsTable([a \in 1..NumStops |->
                 AsTable([b \in 1..NumStops |->
                     MinOr({fewer[a][x] + DirectCost(x, b) :
                              x \in {y \in 1..NumStops :
                                        /\ fewer[a][y] < LARGE_NUMBER
                                        /\ DirectCost(y, b) < LARGE_NUMBER}})])])

WalkTable == WalkCost(NumStops)

\* earliest arrival at p by one trip boarded no earlier than avail allows
TripArrival(avail, p) ==
    MinOr(UNION { {t.arr[j] : j \in {pos \in DOMAIN t.stops :
                                        /\ t.stops[pos] = p
                                        /\ \E i \in 1..(pos - 1) :
                                              t.dep[i] >= avail[t.stops[i]]}} :
                        t \in Range(timetable.trips) })

\* earliest arrival at each stop by one more trip and the walk after it
AfterTrip(avail, walk) ==
    LET ta == AsTable([a \in 1..NumStops |-> TripArrival(avail, a)])
    IN  AsTable([b \in 1..NumStops |->
            MinOr({ta[x] + walk[x][b] :
                     x \in {y \in 1..NumStops :
                               ta[y] < LARGE_NUMBER /\ walk[y][b] < LARGE_NUMBER}})])

\* <<avail, best>> after at most k trips: avail[p] is the earliest time one
\* can be at p, best[p] the earliest arrival at p of a journey that takes at
\* least one trip.  start[p] is the earliest time at p before any trip.
RECURSIVE Journeys(_, _, _)
Journeys(k, start, walk) ==
    IF k = 0
    THEN <<start, AsTable([a \in 1..NumStops |-> LARGE_NUMBER])>>
    ELSE LET prev  == Journeys(k - 1, start, walk)
             after == AfterTrip(prev[1], walk)
         IN  << AsTable([a \in 1..NumStops |-> Min({prev[1][a], after[a]})]),
                AsTable([a \in 1..NumStops |-> Min({prev[2][a], after[a]})]) >>

\* the times at the stops before any trip: dep_secs at the origin stops
StartAtOrigins(from_stops, dep_secs) ==
    AsTable([a \in 1..NumStops |->
                IF a \in from_stops THEN dep_secs ELSE LARGE_NUMBER])

\* earliest arrival at a stop of to_stops of a journey that leaves an origin
\* stop at or after dep_secs, starts with a trip and boards at most k trips
EarliestArrival(from_stops, to_stops, dep_secs, k) ==
    LET best == Journeys(k, StartAtOrigins(from_stops, dep_secs), WalkTable)[2]
    IN  MinOr({best[p] : p \in to_stops})

\* is a stop of to_stops reachable at all with at most k trips, by a journey
\* that starts at an origin stop at dep_secs; the journey without legs counts
Reachable(from_stops, to_stops, dep_secs, k) ==
    LET avail == Journeys(k, StartAtOrigins(from_stops, dep_secs), WalkTable)[1]
    IN  \E p \in to_stops : avail[p] < LARGE_NUMBER

\* trips never overtake one another on a route
Fifo ==
    \A r \in DOMAIN timetable.routes :
      \A a, b \in Range(timetable.routes[r].trips) :
        LET ta == TripOf(a)
            tb == TripOf(b)
        IN  (\E i \in DOMAIN ta.stops : ta.dep[i] < tb.dep[i]) =>
                \A i \in DOMAIN ta.stops : ta.dep[i] <= tb.dep[i] /\ ta.arr[i] <= tb.arr[i]

\* every trip moves strictly forward in time
TimeMonotonic ==
    \A t \in Range(timetable.trips) :
        /\ \A i \in DOMAIN t.stops : t.arr[i] <= t.dep[i]
        /\ \A i \in 1..(Len(t.stops) - 1) : t.dep[i] < t.arr[i + 1]

\* a chain of transfers is never cheaper than, and always matched by, a
\* single transfer
TransfersClosed ==
    LET W == WalkTable
    IN  \A q, p \in timetable.stops : q # p => W[q][p] = DirectCost(q, p)

(***************************************************************************)
(* Claims.                                                                 *)
(***************************************************************************)
Returned(i) == raptor[i].pc = "returned"

\* the minimum global-best arrival time over the stops of the destination
BestAtDestination(i) ==
    MinOr({raptor[i].bag_star[p].earliest_arrival_time :
              p \in timetable.stations[raptor[i].to_station]})

\* C1: on a timetable with time-monotonic trips, FIFO routes and transitively
\* closed transfers, after run the minimum global-best arrival time over the
\* destination stops is the earliest arrival of a journey that leaves an
\* origin stop at or after dep_secs, starts with a trip and boards at most
\* rounds trips.
C1_EarliestArrival ==
    (Returned(1) /\ TimeMonotonic /\ Fifo /\ TransfersClosed) =>
        BestAtDestination(1) =
            EarliestArrival(Range(raptor[1].from_stops),
                            timetable.stations[raptor[1].to_station],
                            raptor[1].dep_secs, raptor[1].rounds)

\* C1 as amended: the same, where the journey without legs, which is at an
\* origin stop at dep_secs, counts when an origin stop is a stop of the
\* destination station
C1_EarliestArrivalOrStay ==
    (Returned(1) /\ TimeMonotonic /\ Fifo /\ TransfersClosed) =>
        BestAtDestination(1) =
            Min({ EarliestArrival(Range(raptor[1].from_stops),
                                  timetable.stations[raptor[1].to_station],
                                  raptor[1].dep_secs, raptor[1].rounds) }
                \cup { raptor[1].dep_secs : p \in Range(raptor[1].from_stops)
                                              \cap timetable.stations[raptor[1].to_station] })

\* a query answered by a journey of more than one trip, on a timetable with
\* transfers that meets the assumptions
C1_Witness ==
    /\ Returned(1) /\ TimeMonotonic /\ Fifo /\ TransfersClosed
    /\ timetable.transfers # {}
    /\ BestAtDestination(1) < LARGE_NUMBER
    /\ BestAtDestination(1) <
          EarliestArrival(Range(raptor[1].from_stops),
                          timetable.stations[raptor[1].to_station],
                          raptor[1].dep_secs, 1)

\* C2: when no journey from the origin stops to a stop of the destination
\* station boards at most rounds trips, after run every destination stop has
\* the infinity label and best_stop_at_target_station returns the zero
\* sentinel.
C2_RoundBound ==
    (/\ Returned(1)
     /\ ~Reachable(Range(raptor[1].from_stops),
                   timetable.stations[raptor[1].to_station],
                   raptor[1].dep_secs, raptor[1].rounds)) =>
        /\ \A p \in timetable.stations[raptor[1].to_station] :
              raptor[1].bag_star[p].earliest_arrival_time = LARGE_NUMBER
        /\ best_stop_at_target_station(get_stops(raptor[1].to_station),
                                       raptor[1].bag_star) = NoFinalStop

\* a query whose destination needs one more trip than the rounds allow
C2_Witness ==
    /\ Returned(1)
    /\ ~Reachable(Range(raptor[1].from_stops),
                  timetable.stations[raptor[1].to_station],
                  raptor[1].dep_secs, raptor[1].rounds)
    /\ Reachable(Range(raptor[1].from_stops),
                 timetable.stations[raptor[1].to_station],
                 raptor[1].dep_secs, raptor[1].rounds + 1)
    /\ raptor[1].rounds >= 2

\* C4: when run has finished, for every stop p and every round k in
\* 1..rounds the arrival time of the round-k label of p is at most that of
\* the round-(k-1) label of p.
C4_RoundLabelsNeverRegress ==
    Returned(1) =>
        \A k \in 1..raptor[1].rounds : \A p \in timetable.stops :
            raptor[1].bag_round_stop[k][p].earliest_arrival_time
                <= raptor[1].bag_round_stop[k - 1][p].earliest_arrival_time

\* C6: after run, a destination stop that was never reached has the infinity
\* arrival time and no from-stop, and reconstruct_journey on it yields the
\* journey without legs.
C6_UnreachedIsEmptyJourney ==
    Returned(1) =>
        \A p \in timetable.stations[raptor[1].to_station] :
            raptor[1].bag_star[p].earliest_arrival_time = LARGE_NUMBER =>
                /\ raptor[1].bag_star[p].from_stop = NoStop
                /\ reconstruct_journey(p, raptor[1].bag_star) = <<>>

\* a run that reached other stops by trips and left a destination stop
\* unreached
C6_Witness ==
    /\ Returned(1)
    /\ \E p \in timetable.stations[raptor[1].to_station] :
          raptor[1].bag_star[p].earliest_arrival_time = LARGE_NUMBER
    /\ \E q \in timetable.stops : raptor[1].bag_star[q].trip # NoTrip

\* the query A -> F of the fixture, departure 100, 2 rounds
FixtureQueryAF(i) ==
    /\ timetable = Fixture
    /\ query[i] = Query(101, 103, 100, 2)

Accepted == range.journeys_to_destinations

\* C3: in the list of run_range_raptor, of every two consecutive accepted
\* journeys one departs earlier than the other, and the one that departs
\* earlier arrives strictly earlier.
C3_EarlierDepartsEarlierArrives ==
    \A j \in 1..(Len(Accepted) - 1) :
        \/ dep(Accepted[j + 1]) < dep(Accepted[j])
           /\ arr(Accepted[j + 1]) < arr(Accepted[j])
        \/ dep(Accepted[j]) < dep(Accepted[j + 1])
           /\ arr(Accepted[j]) < arr(Accepted[j + 1])

\* C9: the list of journeys accepted by run_range_raptor, read in append
\* order, is strictly decreasing in departure time.
C9_DepartureStrictlyDecreasing ==
    \A j \in 1..(Len(Accepted) - 1) : dep(Accepted[j]) > dep(Accepted[j + 1])

\* the departure times of the stop times at the origin stops in the window,
\* read off the trips of the timetable
CandidateTimes ==
    { t.dep[j] : <<t, j>> \in
        { <<u, pos>> \in Range(timetable.trips) \X (1..Cardinality(timetable.stops)) :
            /\ pos \in DOMAIN u.stops
            /\ u.stops[pos] \in timetable.stations[range.origin_station]
            /\ range.dep_secs_min <= u.dep[pos]
            /\ u.dep[pos] <= range.dep_secs_max } }

\* C10: run_range_raptor runs the algorithm once for each distinct departure
\* time of a trip at an origin stop within [dep_secs_min, dep_secs_max], each
\* time on a RaptorAlgorithm that has made no run before, and it takes these
\* times in strictly decreasing order.
C10_OncePerCandidateDescending ==
    /\ \A j \in DOMAIN range.processed :
          /\ range.processed[j].runs = 1
          /\ range.processed[j].dep_secs \in CandidateTimes
          /\ j > 1 => range.processed[j - 1].dep_secs > range.processed[j].dep_secs
    /\ range.pc = "returned" =>
          { range.processed[j].dep_secs : j \in DOMAIN range.processed } = CandidateTimes

\* a range query that has returned after runs for several departure times
C10_Witness ==
    /\ range.pc = "returned"
    /\ Len(range.processed) >= 2
    /\ Cardinality(CandidateTimes) >= 2
    /\ Len(Accepted) >= 1

\* a record on which run goes one step further
StepOf(r) ==
    CASE r.pc = "round"     -> IF RoundRuns(r) THEN RoundStart(r) ELSE RunReturn(r)
      [] r.pc = "routes"    -> IF r.route_marked_stops # <<>>
                               THEN NextRoute(r) ELSE TraverseReturn(r)
      [] r.pc = "visit"     -> Visit(r)
      [] r.pc = "transfers" -> IF r.todo_stops # <<>>
                               THEN NextTransferStop(r) ELSE RoundEnd(r)
      [] r.pc = "relax"     -> Relax(r)
      [] OTHER              -> r

RECURSIVE RunFrom(_)
RunFrom(r) == IF r.pc = "returned" THEN r ELSE RunFrom(StepOf(r))

\* the labels run returns for a query when no other query runs
Alone(q) ==
    RunFrom(RunInit(RaptorAlgorithm, get_stops(q.origin_station),
                    q.destination_station, q.dep_secs, q.rounds)).bag_star

\* C5: two runs of the point query with the same origin, destination,
\* departure time and rounds on the same timetable give the same journey.
C5_SameQuerySameJourney ==
    (query[1] = query[2] /\ result[1].returned /\ result[2].returned) =>
        result[1] = result[2]

\* twice the same query, answered twice by a journey of two legs
C5_Witness ==
    /\ query[1] = query[2]
    /\ result[1].returned /\ result[2].returned
    /\ Len(result[1].journey) >= 2

\* the labels of a query that has returned are those it returns alone
AloneLabels == \A i \in Inst : Returned(i) => raptor[i].bag_star = Alone(query[i])

\* C7: when two queries, each with its own RaptorAlgorithm, share a timetable
\* and their steps interleave, no step changes the timetable and each query
\* returns the labels it returns when it runs alone.
C7_SharedTimetableIsolation ==
    [][timetable' = timetable]_vars /\ []AloneLabels

\* two different queries under way at once, one of them returned with its
\* destination reached
C7_Witness ==
    /\ query[1] # query[2]
    /\ Returned(1)
    /\ raptor[2].pc \in {"visit", "relax", "routes", "transfers"}
    /\ BestAtDestination(1) < LARGE_NUMBER

\* is some stop of the sequence to_stops reached in the label table bag
SomeReached(to_stops, bag) ==
    \E p \in Range(to_stops) : bag[p].earliest_arrival_time < LARGE_NUMBER

\* the stop best_stop_at_target_station picks is a stop of to_stops with the
\* minimum arrival time, and it is the zero sentinel exactly when none is
\* reached
BestStopIsMinimum(to_stops, bag) ==
    LET best == best_stop_at_target_station(to_stops, bag)
    IN  /\ best = NoFinalStop <=> ~SomeReached(to_stops, bag)
        /\ best # NoFinalStop =>
              /\ best \in Range(to_stops)
              /\ \A p \in Range(to_stops) :
                    bag[best].earliest_arrival_time <= bag[p].earliest_arrival_time

\* on return of run, in the point query and in the range query
BestStopOnReturn ==
    /\ (Returned(1) /\ range.pc = "off") =>
          BestStopIsMinimum(get_stops(query[1].destination_station), raptor[1].bag_star)
    /\ (Returned(1) /\ range.pc = "run") =>
          BestStopIsMinimum(range.to_stops, raptor[1].bag_star)
    /\ result[1].returned =>
          /\ result[1].none <=>
                ~SomeReached(get_stops(query[1].destination_station), raptor[1].bag_star)
          /\ result[1].none => result[1].journey = <<>>

\* an iteration of the range query whose run reached no destination stop
\* leaves the list of journeys as it is
NoneReachedAddsNone ==
    (/\ range.pc = "run"
     /\ range'.pc = "loop"
     /\ ~SomeReached(range.to_stops, raptor[1].bag_star)) =>
        range'.journeys_to_destinations = range.journeys_to_destinations

\* C11: best_stop_at_target_station returns a destination stop of minimum
\* arrival time, and the zero sentinel exactly when no destination stop is
\* reached; then the point query returns no journey and the range query adds
\* none for that departure time.
C11_BestStopOrNone ==
    []BestStopOnReturn /\ [][NoneReachedAddsNone]_vars

\* a range query that ran for several departure times and found no journey
C11_Witness ==
    /\ range.pc = "returned"
    /\ Len(range.processed) >= 2
    /\ Len(range.journeys_to_destinations) = 0

\* B departs no earlier and arrives no later than A, one of the two strictly
Dominates(B, A) ==
    /\ dep(B) >= dep(A)
    /\ arr(B) <= arr(A)
    /\ dep(B) > dep(A) \/ arr(B) < arr(A)

\* is_dominated(B, A) has returned, for journeys A and B that have legs
DominatedReturned ==
    /\ call.pc = "returned"
    /\ call.original_journey # <<>>
    /\ call.new_journey # <<>>

\* C12: is_dominated(B, A) reports A as dominated exactly when B departs no
\* earlier than A and arrives no later than A, one of the two strictly.
C12_DominatedIffStrictlyBetter ==
    DominatedReturned =>
        (call.ret <=> Dominates(call.original_journey, call.new_journey))

\* C12 as amended: exactly when B dominates A in that sense or A and B are
\* the same journey
C12_DominatedIffBetterOrSame ==
    DominatedReturned =>
        (call.ret <=> \/ call.original_journey = call.new_journey
                      \/ Dominates(call.original_journey, call.new_journey))

\* a call on two different journeys of the same departure and arrival
C12_Witness ==
    /\ DominatedReturned
    /\ call.original_journey # call.new_journey
    /\ dep(call.original_journey) = dep(call.new_journey)
    /\ arr(call.original_journey) = arr(call.new_journey)
    /\ ~call.ret

\* the positions of run inside a round
RoundPhases == {"routes", "visit", "transfers", "relax"}

\* C13: a query with no origin stops marks no stop, executes no round phase
\* and returns a table in which every stop has the infinity label; a query
\* whose destination station has no stops gets the zero sentinel from
\* best_stop_at_target_station and no journey.
C13_EmptyOriginOrDestination ==
    /\ (raptor[1].pc \in RoundPhases \cup {"round", "returned"}
         /\ raptor[1].from_stops = <<>>) =>
          /\ raptor[1].pc \notin RoundPhases
          /\ raptor[1].marked_stops = <<>>
          /\ \A p \in timetable.stops : raptor[1].bag_star[p] = Label
    /\ (Returned(1) /\ timetable.stations[raptor[1].to_station] = {}) =>
          best_stop_at_target_station(get_stops(raptor[1].to_station),
                                      raptor[1].bag_star) = NoFinalStop
    /\ (result[1].returned /\ timetable.stations[query[1].destination_station] = {}) =>
          result[1].none

\* both cases have run: a query without origin stops has returned, to a
\* destination station without stops
C13_Witness ==
    /\ result[1].returned
    /\ raptor[1].from_stops = <<>>
    /\ timetable.stations[query[1].destination_station] = {}
    /\ timetable.trips # <<>>

\* a stop without outgoing transfers that no route serves
Lone(p) ==
    /\ \A t \in timetable.transfers : t.from_stop # p
    /\ \A r \in DOMAIN timetable.routes : p \notin Range(timetable.routes[r].stops)

\* run is past its initialisation
Running(i) == raptor[i].pc \notin {"idle", "constructed"}

\* the stop has the infinity label in every round and in bag_star, and its
\* journey has no legs
NeverLabelled(i, p) ==
    /\ \A k \in DOMAIN raptor[i].bag_round_stop :
          raptor[i].bag_round_stop[k][p].earliest_arrival_time = LARGE_NUMBER
    /\ raptor[i].bag_star[p].earliest_arrival_time = LARGE_NUMBER
    /\ reconstruct_journey(p, raptor[i].bag_star) = <<>>

\* C14: for every query, a stop that has no outgoing transfers and is served
\* by no route keeps its infinity label through all rounds, and
\* reconstruct_journey for it yields the journey without legs.
C14_LoneStopNeverLabelled ==
    Running(1) => \A p \in timetable.stops : Lone(p) => NeverLabelled(1, p)

\* C14 as amended: the same for such a stop that is not an origin stop
C14_LoneOtherStopNeverLabelled ==
    Running(1) =>
        \A p \in timetable.stops \ Range(raptor[1].from_stops) :
            Lone(p) => NeverLabelled(1, p)

\* a run that labelled stops by trips and by transfers while a stop other
\* than the origin stops is served by nothing
C14_Witness ==
    /\ Returned(1)
    /\ \E p \in timetable.stops \ Range(raptor[1].from_stops) : Lone(p)
    /\ \E q \in timetable.stops : raptor[1].bag_star[q].trip = TRANSFER_TRIP
    /\ \E q \in timetable.stops : raptor[1].bag_star[q].trip \notin {NoTrip, TRANSFER_TRIP}

TripLegs(journey) ==
    Cardinality({ j \in 1..Len(journey) : journey[j].trip # TRANSFER_TRIP })

FiniteLabel(i, p) == raptor[i].bag_star[p].earliest_arrival_time < LARGE_NUMBER

C16_AtMostRoundsTripLegs ==
    Returned(1) =>
        \A p \in timetable.stops :
            FiniteLabel(1, p) =>
                TripLegs(reconstruct_journey(p, raptor[1].bag_star)) <= raptor[1].rounds

(***************************************************************************)
(* C17: every journey reconstructed from a table returned by run on a      *)
(* time-monotonic timetable is feasible: its first leg departs at or after *)
(* dep_secs, the arrival times of its legs never decrease, each leg starts *)
(* at the stop where the leg before it ends, and the trip of each trip leg *)
(* departs its boarding stop no earlier than the leg before it arrives.    *)
(***************************************************************************)
IsTripLeg(leg) == leg.trip # TRANSFER_TRIP

\* the trip of a trip leg calls at both ends of the leg
Serves(leg) ==
    /\ leg.trip \in { t.id : t \in Range(timetable.trips) }
    /\ {leg.from_stop, leg.to_stop} \subseteq Range(TripOf(leg.trip).stops)

Feasible(journey, dep_secs) ==
    /\ \A j \in 1..Len(journey) : IsTripLeg(journey[j]) => Serves(journey[j])
    /\ journey # <<>> =>
          IF IsTripLeg(journey[1])
          THEN get_stop(journey[1].trip, journey[1].from_stop).dts_dep >= dep_secs
          ELSE journey[1].earliest_arrival_time >= dep_secs
    /\ \A j \in 1..(Len(journey) - 1) :
          /\ journey[j].earliest_arrival_time <= journey[j + 1].earliest_arrival_time
          /\ journey[j].to_stop = journey[j + 1].from_stop
          /\ IsTripLeg(journey[j + 1]) =>
                get_stop(journey[j + 1].trip, journey[j + 1].from_stop).dts_dep
                    >= journey[j].earliest_arrival_time

C17_JourneysFeasible ==
    (Returned(1) /\ TimeMonotonic) =>
        \A p \in timetable.stops :
            Feasible(reconstruct_journey(p, raptor[1].bag_star), raptor[1].dep_secs)

\* a journey of a trip, a transfer and a trip has been reconstructed
C17_Witness ==
    /\ Returned(1) /\ TimeMonotonic
    /\ \E p \in timetable.stops :
          LET journey == reconstruct_journey(p, raptor[1].bag_star)
          IN  /\ Len(journey) = 3
              /\ IsTripLeg(journey[1]) /\ ~IsTripLeg(journey[2]) /\ IsTripLeg(journey[3])
              /\ Feasible(journey, raptor[1].dep_secs)

(***************************************************************************)
(* C18: after every phase of every round, earliest_arrival_at_destination  *)
(* is the least global-best arrival time over the stops of the destination *)
(* station, and LARGE_NUMBER when none of them is reached.                 *)
(***************************************************************************)
\* traverse_routes or add_transfer_time of a round has just ended
AfterPhase(i) ==
    \/ raptor[i].pc = "routes" /\ raptor[i].route_marked_stops = <<>>
    \/ raptor[i].pc = "transfers" /\ raptor[i].todo_stops = <<>>
    \/ raptor[i].pc = "round" /\ raptor[i].k >= 1
    \/ raptor[i].pc = "returned"

C18_BoundIsBestAtDestination ==
    AfterPhase(1) =>
        raptor[1].earliest_arrival_at_destination = BestAtDestination(1)

(***************************************************************************)
(* C19: at the start of every call of run the bound                        *)
(* earliest_arrival_at_destination is LARGE_NUMBER, and run called twice    *)
(* on the same RaptorAlgorithm with the same arguments returns the same    *)
(* table of labels both times.                                             *)
(***************************************************************************)
BoundFreshAtCall ==
    raptor[1].pc = "constructed" =>
        raptor[1].earliest_arrival_at_destination = LARGE_NUMBER

SecondTableSame ==
    (Returned(1) /\ call.pc = "rerun") => raptor[1].bag_star = call.first

C19_BoundIsQueryLocal == BoundFreshAtCall /\ SecondTableSame

(***************************************************************************)
(* C20: run always terminates and executes at most R rounds; the marked    *)
(* set of round k+1 is exactly the set of stops improved in the route      *)
(* phase or the transfer phase of round k; and as soon as that set is      *)
(* empty no further round executes and no label changes afterwards.        *)
(***************************************************************************)
Terminates == <>Returned(1)

AtMostRRounds ==
    Running(1) =>
        /\ raptor[1].k <= raptor[1].rounds + 1
        /\ raptor[1].pc \in RoundPhases => raptor[1].k <= raptor[1].rounds

\* the stops improved in round k: a round's labels start empty and are
\* written only by an improvement
ImprovedIn(i, k) ==
    { p \in timetable.stops :
        raptor[i].bag_round_stop[k][p].earliest_arrival_time < LARGE_NUMBER }

MarkedIsImproved ==
    (raptor[1].pc = "round" /\ raptor[1].k >= 2) =>
        Range(raptor[1].marked_stops) = ImprovedIn(1, raptor[1].k - 1)

LabelsKept ==
    /\ raptor'[1].bag_star = raptor[1].bag_star
    /\ raptor'[1].bag_round_stop = raptor[1].bag_round_stop

EmptyMarkedEnds ==
    /\ (raptor[1].pc = "round" /\ raptor[1].marked_stops = <<>>) =>
          raptor'[1].pc = "returned" /\ LabelsKept
    /\ raptor[1].pc \in {"returned", "done"} =>
          raptor'[1].pc \in {"returned", "done"} /\ LabelsKept

C20_TerminatesWithinRounds ==
    /\ Terminates
    /\ []AtMostRRounds
    /\ []MarkedIsImproved
    /\ [][EmptyMarkedEnds]_vars

\* run has returned before round R because no stop was marked, after a round
\* that improved some stop
C20_Witness ==
    /\ Returned(1)
    /\ raptor[1].k >= 3
    /\ raptor[1].k <= raptor[1].rounds
    /\ raptor[1].marked_stops = <<>>
    /\ ImprovedIn(1, raptor[1].k - 2) # {}

(***************************************************************************)
(* C21: throughout run the global-best table is the running minimum of the *)
(* labels of the rounds: every write to a stop's global-best label         *)
(* strictly lowers its arrival time and writes the same (arrival, trip,    *)
(* from-stop) into the label of the current round, so after every step the *)
(* global-best arrival of each stop is the least of its arrival times over *)
(* the rounds 0..k.                                                        *)
(***************************************************************************)
RoundsSoFar(i) == 0..Min({raptor[i].k, raptor[i].rounds})

StarIsRunningMinimum ==
    Running(1) =>
        \A p \in timetable.stops :
            raptor[1].bag_star[p].earliest_arrival_time =
                Min({ raptor[1].bag_round_stop[k][p].earliest_arrival_time :
                        k \in RoundsSoFar(1) })

StarWriteLowers ==
    (Running(1) /\ raptor'[1].pc # "done") =>
        \A p \in timetable.stops :
            raptor'[1].bag_star[p] # raptor[1].bag_star[p] =>
                /\ raptor'[1].bag_star[p].earliest_arrival_time
                      < raptor[1].bag_star[p].earliest_arrival_time
                /\ raptor'[1].bag_round_stop[raptor[1].k][p] = raptor'[1].bag_star[p]

C21_StarIsMinimumOfRounds == []StarIsRunningMinimum /\ [][StarWriteLowers]_vars

\* a stop reached in two rounds, in the later round earlier, has been
\* returned with the arrival of the later round
C21_Witness ==
    /\ Returned(1)
    /\ \E p \in timetable.stops :
          /\ raptor[1].bag_round_stop[1][p].earliest_arrival_time < LARGE_NUMBER
          /\ raptor[1].rounds >= 2
          /\ raptor[1].bag_round_stop[2][p].earliest_arrival_time
                < raptor[1].bag_round_stop[1][p].earliest_arrival_time
          /\ raptor[1].bag_star[p] = raptor[1].bag_round_stop[2][p]

(***************************************************************************)
(* C22: in every table returned by run on a timetable whose trips move     *)
(* strictly forward in time and whose transfers cost no less than nothing, *)
(* the chain of from-stops that starts at any stop has no cycle and ends   *)
(* at an origin stop, so reconstruct_journey terminates for every stop.    *)
(***************************************************************************)
NonNegativeTransfers == \A t \in timetable.transfers : t.layovertime >= 0

\* the stop at which the chain of from-stops ends, NoStop when it has not
\* ended after fuel steps
RECURSIVE ChainEnd(_, _, _)
ChainEnd(to_stop, bag, fuel) ==
    IF bag[to_stop].from_stop = NoStop THEN to_stop
    ELSE IF fuel = 0 THEN NoStop
    ELSE ChainEnd(bag[to_stop].from_stop, bag, fuel - 1)

\* the stops on the chain of from-stops, as far as fuel steps go
RECURSIVE ChainStops(_, _, _)
ChainStops(to_stop, bag, fuel) ==
    IF bag[to_stop].from_stop = NoStop \/ fuel = 0 THEN <<to_stop>>
    ELSE <<to_stop>> \o ChainStops(bag[to_stop].from_stop, bag, fuel - 1)

Acyclic(p, bag) ==
    LET chain == ChainStops(p, bag, Cardinality(timetable.stops))
    IN  /\ \A a, b \in DOMAIN chain : a # b => chain[a] # chain[b]
        /\ bag[chain[Len(chain)]].from_stop = NoStop

C22_FromStopChainsEndAtOrigin ==
    (Returned(1) /\ TimeMonotonic /\ NonNegativeTransfers) =>
        \A p \in timetable.stops :
            /\ Acyclic(p, raptor[1].bag_star)
            /\ raptor[1].bag_star[p].from_stop # NoStop =>
                  ChainEnd(p, raptor[1].bag_star, Cardinality(timetable.stops))
                      \in Range(raptor[1].from_stops)

\* a chain of three from-stops has been returned
C22_Witness ==
    /\ Returned(1) /\ TimeMonotonic /\ NonNegativeTransfers
    /\ \E p \in timetable.stops :
          /\ Len(ChainStops(p, raptor[1].bag_star, Cardinality(timetable.stops))) = 4
          /\ Acyclic(p, raptor[1].bag_star)

(***************************************************************************)
(* C23: while a route is scanned in round k, the held trip changes at a    *)
(* stop only if no trip is held or the arrival of round k-1 at the stop is *)
(* at most the departure of the held trip there; the trip switched to is   *)
(* the earliest trip of the route that departs the stop at or after the    *)
(* arrival of round k-1, the stop becomes the boarding stop, and on a FIFO *)
(* route the new trip never departs the stop later than the trip it        *)
(* replaces.                                                               *)
(***************************************************************************)
DepartureAt(trip, stop) == get_stop(trip, stop).dts_dep

\* the arrival of round k-1 at the stop the scan of instance i is visiting
ArrivalBefore(i) ==
    raptor[i].bag_round_stop[raptor[i].k - 1][Head(raptor[i].remaining_stops_in_route)]
        .earliest_arrival_time

TripChangeAllowed ==
    LET r == raptor[1]
        current_stop == Head(r.remaining_stops_in_route)
        held == r.current_trip
        new == raptor'[1].current_trip
        trips == Range(timetable.routes[r.marked_route].trips)
    IN  (r.pc = "visit" /\ new # held) =>
            /\ held = NoTrip \/ ArrivalBefore(1) <= DepartureAt(held, current_stop)
            /\ new \in trips
            /\ DepartureAt(new, current_stop) >= ArrivalBefore(1)
            /\ \A t \in trips :
                  DepartureAt(t, current_stop) >= ArrivalBefore(1) =>
                      DepartureAt(new, current_stop) <= DepartureAt(t, current_stop)
            /\ raptor'[1].boarding_stop = current_stop
            /\ (Fifo /\ held # NoTrip) =>
                  DepartureAt(new, current_stop) <= DepartureAt(held, current_stop)

C23_TripChangesToEarliest == [][TripChangeAllowed]_vars

\* a trip is held at a stop where an earlier trip of the route can be caught
C23_Witness ==
    LET r == raptor[1]
    IN  /\ r.pc = "visit"
        /\ r.current_trip # NoTrip
        /\ Fifo
        /\ ArrivalBefore(1) <= DepartureAt(r.current_trip, Head(r.remaining_stops_in_route))
        /\ \E t \in Range(timetable.routes[r.marked_route].trips) :
              /\ DepartureAt(t, Head(r.remaining_stops_in_route)) >= ArrivalBefore(1)
              /\ DepartureAt(t, Head(r.remaining_stops_in_route))
                    < DepartureAt(r.current_trip, Head(r.remaining_stops_in_route))

(***************************************************************************)
(* C24: in the route phase of round k the labels of a stop are updated and *)
(* the stop is marked exactly when a trip is held and its arrival time at  *)
(* the stop is strictly less than both the global-best arrival of the stop *)
(* and the pruning bound of the destination; otherwise the visit leaves    *)
(* the round-k label of the stop, its global-best label and the marked set *)
(* as they are.                                                            *)
(***************************************************************************)
ArrivalAt(trip, stop) == get_stop(trip, stop).dts_arr

\* instance i holds a trip that reaches the stop it visits before the best
\* arrival known there and before the bound
HeldTripIsEarlier(i) ==
    LET r == raptor[i]
        current_stop == Head(r.remaining_stops_in_route)
    IN  /\ r.current_trip # NoTrip
        /\ ArrivalAt(r.current_trip, current_stop)
              < r.bag_star[current_stop].earliest_arrival_time
        /\ ArrivalAt(r.current_trip, current_stop) < r.earliest_arrival_at_destination

VisitUpdatesExactlyWhenEarlier ==
    LET r == raptor[1]
        current_stop == Head(r.remaining_stops_in_route)
        written == [earliest_arrival_time |-> ArrivalAt(r.current_trip, current_stop),
                    trip |-> r.current_trip, from_stop |-> r.boarding_stop]
    IN  r.pc = "visit" =>
            IF HeldTripIsEarlier(1)
            THEN /\ raptor'[1].bag_round_stop[r.k][current_stop] = written
                 /\ raptor'[1].bag_star[current_stop] = written
                 /\ raptor'[1].marked_trip_stops = Append(r.marked_trip_stops, current_stop)
            ELSE /\ raptor'[1].bag_round_stop[r.k][current_stop]
                       = r.bag_round_stop[r.k][current_stop]
                 /\ raptor'[1].bag_star[current_stop] = r.bag_star[current_stop]
                 /\ raptor'[1].marked_trip_stops = r.marked_trip_stops

C24_RoutePhaseUpdate == [][VisitUpdatesExactlyWhenEarlier]_vars

\* a visit that improves a stop with the bound already set has been made
C24_Witness ==
    LET r == raptor[1]
    IN  /\ r.pc \in {"visit", "routes"}
        /\ r.marked_trip_stops # <<>>
        /\ r.earliest_arrival_at_destination < LARGE_NUMBER
        /\ LET p == r.marked_trip_stops[Len(r.marked_trip_stops)]
            IN  /\ p \notin r.destination_stops
                /\ r.bag_star[p] = r.bag_round_stop[r.k][p]
                /\ r.bag_star[p].trip = r.current_trip

(***************************************************************************)
(* C25: in the transfer phase of round k, for each stop improved in the    *)
(* route phase and each transfer leaving it, the candidate arrival is the  *)
(* arrival by trip of round k at the stop plus the layover of the          *)
(* transfer; the round-k and global-best labels of the target are set to   *)
(* (candidate, transfer marker, source stop) and the target is marked only *)
(* if the candidate is strictly less than the target's global-best         *)
(* arrival.                                                                *)
(***************************************************************************)
\* the walk from a stop starts at the arrival a trip of the round gave it
WalkStartsAtTripArrival ==
    LET r == raptor[1]
        current_stop == Head(r.todo_stops)
    IN  (r.pc = "transfers" /\ r.todo_stops # <<>>) =>
            /\ r.bag_round_stop[r.k][current_stop].trip # TRANSFER_TRIP
            /\ raptor'[1].time_sofar
                  = r.bag_round_stop[r.k][current_stop].earliest_arrival_time

TransferUpdatesOnlyWhenEarlier ==
    LET r == raptor[1]
        transfer == Head(r.todo_transfers)
        target == transfer.to_stop
        candidate == r.time_sofar + transfer.layovertime
        written == [earliest_arrival_time |-> candidate, trip |-> TRANSFER_TRIP,
                    from_stop |-> r.current_stop]
    IN  r.pc = "relax" =>
            IF candidate < r.bag_star[target].earliest_arrival_time
            THEN /\ raptor'[1].bag_round_stop[r.k][target] = written
                 /\ raptor'[1].bag_star[target] = written
                 /\ raptor'[1].marked_transfer_stops
                       = Append(r.marked_transfer_stops, target)
            ELSE /\ raptor'[1].bag_round_stop[r.k][target] = r.bag_round_stop[r.k][target]
                 /\ raptor'[1].bag_star[target] = r.bag_star[target]
                 /\ raptor'[1].marked_transfer_stops = r.marked_transfer_stops

C25_TransferPhaseUpdate ==
    [][WalkStartsAtTripArrival /\ TransferUpdatesOnlyWhenEarlier]_vars

(***************************************************************************)
(* C26: accumulate_routes returns exactly one (route, stop) pair for every *)
(* route that serves a marked stop and none for any other route, and the   *)
(* stop of a pair is the marked stop with the least position in the stop   *)
(* sequence of the route, in whatever order the marked stops come.         *)
(***************************************************************************)
\* the marked stops a route serves
MarkedOn(route, marked) == marked \cap Range(timetable.routes[route].stops)

\* the pairs accumulate_routes is to return, as a set
EarliestMarked(marked) ==
    { <<route, p>> \in (DOMAIN timetable.routes) \X marked :
        /\ p \in MarkedOn(route, marked)
        /\ \A m \in MarkedOn(route, marked) :
              IndexOf(timetable.routes[route].stops, p)
                  <= IndexOf(timetable.routes[route].stops, m) }

C26_OneEarliestStopPerRoute ==
    call.pc = "returned" =>
        /\ Range(call.ret) = EarliestMarked(Range(call.marked_stops))
        /\ \A a, b \in DOMAIN call.ret : a # b => call.ret[a][1] # call.ret[b][1]

\* a route got a stop that was marked after a later stop of the route
C26_Witness ==
    /\ call.pc = "returned"
    /\ \E j \in DOMAIN call.ret, a, b \in DOMAIN call.marked_stops :
          /\ a < b
          /\ call.marked_stops[b] = call.ret[j][2]
          /\ call.marked_stops[a] \in Range(timetable.routes[call.ret[j][1]].stops)
          /\ Len(call.ret) >= 2

(***************************************************************************)
(* C27: for a reached destination, reconstruct_journey returns the legs in *)
(* chronological order: the first leg starts at a stop whose label has no  *)
(* from-stop (an origin), the last leg ends at the destination, the        *)
(* to-stop of each leg is the from-stop of the next, and each leg carries  *)
(* the trip (or the transfer marker) and the arrival time of the           *)
(* global-best label of its to-stop.                                       *)
(***************************************************************************)
LegsFromOrigin(journey, destination, bag) ==
    /\ journey = <<>> <=> bag[destination].from_stop = NoStop
    /\ journey # <<>> =>
          /\ bag[journey[1].from_stop].from_stop = NoStop
          /\ journey[Len(journey)].to_stop = destination
    /\ \A j \in 1..(Len(journey) - 1) : journey[j].to_stop = journey[j + 1].from_stop
    /\ \A j \in 1..Len(journey) :
          /\ journey[j].trip = bag[journey[j].to_stop].trip
          /\ journey[j].earliest_arrival_time
                = bag[journey[j].to_stop].earliest_arrival_time
          /\ journey[j].from_stop = bag[journey[j].to_stop].from_stop

C27_LegsInOrderFromOrigin ==
    (result[1].returned /\ ~result[1].none) =>
        LegsFromOrigin(result[1].journey, result[1].dest_stop, raptor[1].bag_star)

\* a journey of a trip, a transfer and a trip to the destination has been
\* returned
C27_Witness ==
    /\ result[1].returned /\ ~result[1].none
    /\ Len(result[1].journey) = 3
    /\ result[1].journey[2].trip = TRANSFER_TRIP
    /\ result[1].journey[1].from_stop \in Range(raptor[1].from_stops)

====
